---- MODULE Spec2Model ----
(***************************************************************************)
(* logspout-rancher-ledger: the HTTP adapter's buffered delivery engine    *)
(* (Stream / flushHttp and the flush goroutines of http.go) together with  *)
(* the Rancher metadata cache and resolver of rancher.go.                  *)
(*                                                                         *)
(* One adapter instance is modelled: its worker goroutine (Stream), the    *)
(* runtime timer behind a.timer and the flush goroutines it spawns. The    *)
(* Rancher API is an environment: what its container list holds for an ID  *)
(* is an input of each resolution, since it may change between any two.    *)
(***************************************************************************)
EXTENDS Integers, Sequences, FiniteSets, TLC

(* ------------------------------ bounds ------------------------------- *)

\* Largest configured buffer capacity explored (http.buffer.capacity).
MaxCapacity == 2
\* The configured flush timeout (http.buffer.timeout), in timer ticks.
TimeoutTicks == 2
\* Number of messages the log stream delivers in a behaviour.
MaxMsgs == 2

(* ------------------------------ inputs ------------------------------- *)

\* Docker container IDs of the containers that write log lines.
ContainerIDs == {"c1", "c2", "c3"}

\* Shapes of message.Data: a JSON object, a JSON value that is no object,
\* the JSON literal null, and text that is no JSON at all.
Payloads == {"object", "array", "null", "text"}

\* What Rancher's container list holds for an externalId when it is asked:
\* no such container, or the container with one of two states of its
\* metadata (name, IP, labels change over a container's life).
Listings == {"none", "v1", "v2"}

\* Outcomes of client.Do: a transport error, status 200, another status.
DoOutcomes == {"err", "200", "500"}

\* c.Config.Env of each container: the LOGSTASH_FIELDS value, one
\* character per element ("" is an environment without the variable).
\* c1 carries one well-formed pair, c2 none, c3 an entry without "=".
ContainerEnv(id) ==
    CASE id = "c1" -> << [name |-> "PATH", value |-> <<"b">>],
                         [name |-> "LOGSTASH_FIELDS", value |-> <<"k", "=", "v">>] >>
      [] id = "c2" -> << [name |-> "PATH", value |-> <<"b">>] >>
      [] OTHER     -> << [name |-> "LOGSTASH_FIELDS", value |-> <<"k", "=", "v", ",", "k">>] >>

\* os.Getenv("LOGSTASH_FIELDS") of the process: unset.
GlobalFieldsStr == << >>

(* ------------------------------- state ------------------------------- *)

VARIABLES
    capacity,           \* a.capacity = cap(a.buffer)
    timeout,            \* a.timeout, in ticks
    crash,              \* a.crash
    marshalMayFail,     \* whether json.Marshal is allowed to return an error
    buffer,             \* a.buffer
    timerLeft,          \* a.timer: ticks until it fires, 0 = not running
    timerC,             \* a.timer.C: number of queued events (0 or 1)
    totalMessageCount,  \* a.totalMessageCount
    logstashFields,     \* a.logstashFields
    cCache,             \* the package-level cCache
    tasks,              \* the flush goroutines in flight
    pc,                 \* position of the Stream worker
    crashed,            \* the process has panicked
    nextSeq,            \* number of messages received from logstream
    last,               \* the latest step of the worker, or response to a request
    completed,          \* records of the batches whose goroutine has finished
    route,              \* route.Options handed to NewHTTPAdapter
    adapter,            \* the HTTPAdapter NewHTTPAdapter returned
    wk                  \* the Stream workers of the http and https adapters

vars == << capacity, timeout, crash, marshalMayFail, buffer, timerLeft, timerC,
           totalMessageCount, logstashFields, cCache, tasks, pc,
           crashed, nextSeq, last, completed, route, adapter, wk >>

\* What the single-adapter behaviours leave alone: the construction under
\* study and the second adapter.
aside == << route, adapter, wk >>

config == << capacity, timeout, crash, marshalMayFail >>

(* ------------------------- rancher.go: cache ------------------------- *)

\* A nil *RancherInfo / nil *client.Container.
NilInfo == [DockerID |-> "", ver |-> ""]

\* rancher.Container.List with the externalId filter, then the loop that
\* re-verifies ExternalId: the matching record, or nil. `listed` is what
\* Rancher holds for cID at the time of the call. An API error is logged
\* and leaves an empty list.
GetRancherId(cID, listed, apiErr) ==
    IF apiErr \/ listed = "none"
    THEN NilInfo
    ELSE [DockerID |-> cID, ver |-> listed]

\* A lookup that never finds the entry.
ExistsInCacheNever(cache, containerID) == FALSE

ExistsInCache(cache, containerID) == \E k \in DOMAIN cache : k = containerID

GetFromCache(cache, cID) == cache[cID]

Cache(cache, con) ==
    [k \in DOMAIN cache \cup {con.DockerID} |->
        IF k = con.DockerID THEN con ELSE cache[k]]

\* delete(cCache, cId): the map afterwards.
DeleteFromCacheMap(cache, cId) == [k \in DOMAIN cache \ {cId} |-> cache[k]]

\* DeleteFromCache's return value: ExistsInCache after the delete.
DeleteFromCache(cache, cId) == ExistsInCache(DeleteFromCacheMap(cache, cId), cId)

\* Whether GetRancherInfo calls the Rancher API.
CallsApi(cache, cID) == ~ExistsInCache(cache, cID)

\* GetRancherInfo: the returned *RancherInfo.
GetRancherInfo(cache, cID, listed, apiErr) ==
    IF ~ExistsInCache(cache, cID)
    THEN LET rcontainer == GetRancherId(cID, listed, apiErr)
         IN IF rcontainer = NilInfo
            THEN NilInfo
            ELSE [DockerID |-> cID, ver |-> rcontainer.ver]
    ELSE GetFromCache(cache, cID)

\* A resolver that remembers the failure as an entry without metadata.
GetRancherInfoCacheNegative(cache, cID, listed, apiErr) ==
    IF ~ExistsInCache(cache, cID)
    THEN LET rcontainer == GetRancherId(cID, listed, apiErr)
         IN Cache(cache, [DockerID |-> cID, ver |-> rcontainer.ver])
    ELSE cache

\* GetRancherInfo: cCache afterwards.
GetRancherInfoCache(cache, cID, listed, apiErr) ==
    IF ~ExistsInCache(cache, cID)
    THEN LET rcontainer == GetRancherId(cID, listed, apiErr)
         IN IF rcontainer = NilInfo
            THEN DeleteFromCacheMap(cache, cID)
            ELSE Cache(cache, [DockerID |-> cID, ver |-> rcontainer.ver])
    ELSE cache

(* ---------------------- http.go: GetLogstashFields ------------------- *)

RECURSIVE SplitAcc(_, _, _, _, _)
SplitAcc(s, sep, i, cur, acc) ==
    IF i > Len(s)
    THEN Append(acc, cur)
    ELSE IF s[i] = sep
         THEN SplitAcc(s, sep, i + 1, << >>, Append(acc, cur))
         ELSE SplitAcc(s, sep, i + 1, Append(cur, s[i]), acc)

\* strings.Split(s, sep) for a one-character separator.
Split(s, sep) == SplitAcc(s, sep, 1, << >>, << >>)

RECURSIVE FieldsStrFrom(_, _, _)
FieldsStrFrom(env, i, acc) ==
    IF i > Len(env)
    THEN acc
    ELSE FieldsStrFrom(env, i + 1,
             IF env[i].name = "LOGSTASH_FIELDS" THEN env[i].value ELSE acc)

\* The fieldsStr GetLogstashFields parses: the process's LOGSTASH_FIELDS,
\* overridden by the container's own.
FieldsStr(cID) == FieldsStrFrom(ContainerEnv(cID), 1, GlobalFieldsStr)

\* k, v := sp[0], sp[1] indexes out of range for an entry without "=".
FieldsPanic(fieldsStr) ==
    /\ Len(fieldsStr) > 0
    /\ \E i \in 1..Len(Split(fieldsStr, ",")) :
           Len(Split(Split(fieldsStr, ",")[i], "=")) < 2

RECURSIVE FieldsFrom(_, _, _)
FieldsFrom(entries, i, acc) ==
    IF i > Len(entries)
    THEN acc
    ELSE LET sp == Split(entries[i], "=")
         IN FieldsFrom(entries, i + 1,
                [k \in DOMAIN acc \cup {sp[1]} |-> IF k = sp[1] THEN sp[2] ELSE acc[k]])

\* The map the parsing loop builds (defined when FieldsPanic is false).
ParseFields(fieldsStr) ==
    IF Len(fieldsStr) > 0
    THEN FieldsFrom(Split(fieldsStr, ","), 1, << >>)
    ELSE << >>

\* GetLogstashFields panics only when the container is not yet cached.
GetLogstashFieldsPanics(lf, cID) ==
    /\ cID \notin DOMAIN lf
    /\ FieldsPanic(FieldsStr(cID))

\* GetLogstashFields: a.logstashFields afterwards.
GetLogstashFieldsCache(lf, cID) ==
    IF cID \in DOMAIN lf
    THEN lf
    ELSE [k \in DOMAIN lf \cup {cID} |->
             IF k = cID THEN ParseFields(FieldsStr(cID)) ELSE lf[k]]

(* -------------------- Stream: building the record -------------------- *)

\* json.Unmarshal([]byte(message.Data), &data) into a nil map: an object
\* fills the map, null succeeds and leaves the map nil, any other JSON
\* value is a type error and text is a syntax error.
UnmarshalErr(payload) == payload \in {"array", "text"}
UnmarshalLeavesNil(payload) == payload = "null"

\* data["docker"] = dockerInfo on a nil map panics.
RecordPanics(payload) == ~UnmarshalErr(payload) /\ UnmarshalLeavesNil(payload)

\* A worker that never takes the `continue`.
DroppedNever(rancherInfo) == FALSE

\* if rancherInfo == nil { continue }
Dropped(rancherInfo) == rancherInfo = NilInfo

\* The enriched record appended to the buffer.
LogRecord(seq, cID, payload, rancherInfo) ==
    [seq     |-> seq,
     docker  |-> cID,
     rancher |-> rancherInfo.ver,
     wrapped |-> UnmarshalErr(payload)]

(* ------------------------- http.go: flushHttp ------------------------ *)

\* Outcomes of json.Marshal(buffer): nil error, or an error when allowed.
MarshalOutcomes == IF marshalMayFail THEN {TRUE, FALSE} ELSE {TRUE}

\* The capacity check written with > : one record too late.
IsFullOffByOne(buf) == Len(buf) > capacity

\* len(a.buffer) >= cap(a.buffer), cap(a.buffer) being a.capacity.
IsFull(buf) == Len(buf) >= capacity

\* A flush that stops the timer and leaves a.timer.C as it is.
StopAndDrainStopOnly(queued) == queued

\* a.timer.Stop() followed by the non-blocking receive from a.timer.C:
\* the events left queued, given those queued before.
StopAndDrain(queued) == 0

\* A flush that stops the timer and does not arm it again.
ResetTimerForgotten(buf) == 0

\* A flush that returns on the empty buffer before the deferred Reset is
\* registered: the stopped timer stays stopped.
ResetTimerSkippedWhenEmpty(buf) == IF Len(buf) < 1 THEN 0 ELSE timeout

\* a.timer.Stop(), then on return the deferred a.timer.Reset(a.timeout):
\* the ticks left on the timer when flushHttp returns.
ResetTimer(buf) == timeout

\* A flush that leaves the newest record behind in the live buffer.
BufferAfterFlushKeepsLast(buf) ==
    IF Len(buf) < 1 THEN buf ELSE << buf[Len(buf)] >>

\* A flush that keeps appending to the buffer it has just sent.
BufferAfterFlushKept(buf) == buf

\* a.buffer when flushHttp returns: untouched when empty, else the fresh one.
BufferAfterFlush(buf) == IF Len(buf) < 1 THEN buf ELSE << >>

\* A flush that sends whatever json.Marshal left in payload.
FlushSpawnsDespiteError(buf, marshalOk) == ~(Len(buf) < 1)

\* Whether flushHttp reaches the go statement.
FlushSpawns(buf, marshalOk) == ~(Len(buf) < 1) /\ marshalOk

\* A flush that only returns once its request has been answered.
NewTaskSynchronous(buf, reason) ==
    [batch |-> buf, reason |-> reason, pc |-> "write", tmp |-> totalMessageCount]

\* A goroutine that is handed the buffer without its oldest record.
NewTaskTail(buf, reason) ==
    [batch |-> Tail(buf), reason |-> reason, pc |-> "do", tmp |-> 0]

\* The goroutine flushHttp starts for the detached buffer.
NewTask(buf, reason) == [batch |-> buf, reason |-> reason, pc |-> "do", tmp |-> 0]

\* flushHttp(reason) as a whole; `queued` is what a.timer.C holds on entry.
flushHttp(reason, marshalOk, queued) ==
    /\ timerC' = StopAndDrain(queued)
    /\ timerLeft' = ResetTimer(buffer)
    /\ buffer' = BufferAfterFlush(buffer)
    /\ tasks' = IF FlushSpawns(buffer, marshalOk)
                THEN tasks \cup {NewTask(buffer, reason)}
                ELSE tasks

(* --------------- NewHTTPAdapter: capacity and timeout ---------------- *)

\* Strings are sequences of one-character strings.
Digits == << "0", "1", "2", "3", "4", "5", "6", "7", "8", "9" >>
IsDigit(c) == \E d \in 1..10 : Digits[d] = c
DigitVal(c) == (CHOOSE d \in 1..10 : Digits[d] = c) - 1

\* An entry of route.Options: absent, or present with its text.
Absent == [set |-> FALSE, value |-> << >>]
Given(text) == [set |-> TRUE, value |-> text]

RECURSIVE AtoiFrom(_, _, _)
AtoiFrom(s, i, acc) ==
    IF i > Len(s) THEN [err |-> FALSE, val |-> acc]
    ELSE IF ~IsDigit(s[i]) THEN [err |-> TRUE, val |-> 0]
    ELSE AtoiFrom(s, i + 1, acc * 10 + DigitVal(s[i]))

\* strconv.Atoi, for texts short enough to fit an int: an optional sign and
\* at least one decimal digit, nothing else.
Atoi(s) ==
    LET signed == Len(s) > 0 /\ s[1] \in {"+", "-"}
        body == IF signed THEN Tail(s) ELSE s
        n == AtoiFrom(body, 1, 0)
    IN IF Len(body) = 0 THEN [err |-> TRUE, val |-> 0]
       ELSE IF n.err THEN n
       ELSE IF signed /\ s[1] = "-" THEN [err |-> FALSE, val |-> 0 - n.val]
       ELSE n

getIntParameter(option, dfault) ==
    IF option.set
    THEN LET r == Atoi(option.value)
         IN IF r.err THEN dfault ELSE r.val
    ELSE dfault

\* A time.Duration is kept as a sign, whole seconds and nanoseconds.
Duration(neg, sec, nsec) == [neg |-> neg, sec |-> sec, nsec |-> nsec]

Units == { << "n", "s" >>, << "u", "s" >>, << "m", "s" >>,
           << "s" >>, << "m" >>, << "h" >> }

\* The unitMap of time.ParseDuration.
UnitSize(u) ==
    CASE u = << "n", "s" >> -> Duration(FALSE, 0, 1)
      [] u = << "u", "s" >> -> Duration(FALSE, 0, 1000)
      [] u = << "m", "s" >> -> Duration(FALSE, 0, 1000000)
      [] u = << "s" >> -> Duration(FALSE, 1, 0)
      [] u = << "m" >> -> Duration(FALSE, 60, 0)
      [] u = << "h" >> -> Duration(FALSE, 3600, 0)

\* v units of size `unit`.
Times(v, unit) ==
    IF unit.sec > 0
    THEN Duration(FALSE, v * unit.sec, 0)
    ELSE LET per == 1000000000 \div unit.nsec
         IN Duration(FALSE, v \div per, (v % per) * unit.nsec)

Plus(a, b) ==
    Duration(FALSE, a.sec + b.sec + ((a.nsec + b.nsec) \div 1000000000),
             (a.nsec + b.nsec) % 1000000000)

RECURSIVE DigitsEnd(_, _)
DigitsEnd(s, i) ==
    IF i > Len(s) \/ ~IsDigit(s[i]) THEN i ELSE DigitsEnd(s, i + 1)

RECURSIVE UnitEnd(_, _)
UnitEnd(s, j) ==
    IF j > Len(s) \/ IsDigit(s[j]) \/ s[j] = "." THEN j ELSE UnitEnd(s, j + 1)

\* The loop of time.ParseDuration over its number-unit groups, for groups
\* without a fraction.
RECURSIVE ParseGroups(_, _, _)
ParseGroups(s, i, acc) ==
    IF i > Len(s) THEN [err |-> FALSE, d |-> acc]
    ELSE LET j == DigitsEnd(s, i)
             k == UnitEnd(s, j)
             u == SubSeq(s, j, k - 1)
         IN IF j = i \/ k = j \/ u \notin Units
            THEN [err |-> TRUE, d |-> Duration(FALSE, 0, 0)]
            ELSE ParseGroups(s, k,
                     Plus(acc, Times(AtoiFrom(SubSeq(s, i, j - 1), 1, 0).val,
                                     UnitSize(u))))

\* time.ParseDuration: an optional sign, then "0" or number-unit groups.
ParseDuration(s) ==
    LET signed == Len(s) > 0 /\ s[1] \in {"+", "-"}
        body == IF signed THEN Tail(s) ELSE s
        r == ParseGroups(body, 1, Duration(FALSE, 0, 0))
    IN IF body = << "0" >> THEN [err |-> FALSE, d |-> Duration(FALSE, 0, 0)]
       ELSE IF Len(body) = 0 THEN [err |-> TRUE, d |-> Duration(FALSE, 0, 0)]
       ELSE IF r.err THEN r
       ELSE [err |-> FALSE,
             d |-> Duration(signed /\ s[1] = "-" /\ (r.d.sec > 0 \/ r.d.nsec > 0),
                            r.d.sec, r.d.nsec)]

getDurationParameter(option, dfault) ==
    IF option.set
    THEN LET r == ParseDuration(option.value)
         IN IF r.err THEN dfault ELSE r.d
    ELSE dfault

defaultCapacity == 100

defaultTimeout == ParseDuration(<< "1", "0", "0", "0", "m", "s" >>).d

\* A range check that turns away the two ends of the range as well.
CapacityNonSensicalAtEnds(c) == c <= 1 \/ c >= 10000

\* capacity < 1 || capacity > 10000
CapacityNonSensical(c) == c < 1 \/ c > 10000

\* timeoutSeconds < .1 || timeoutSeconds > 600, where timeoutSeconds is
\* float64(sec) + float64(nsec)/1e9: nsec/1e9 rounds to the double .1
\* exactly at 100ms and below it for less, and 600 + 1e-9 is above 600.
TimeoutNonSensical(d) ==
    \/ d.neg
    \/ d.sec = 0 /\ d.nsec < 100000000
    \/ d.sec > 600
    \/ d.sec = 600 /\ d.nsec > 0

\* make([]*map[string]interface{}, 0, capacity) panics on a negative cap.
MakePanics(c) == c < 0

\* The capacity and timeout of the adapter NewHTTPAdapter returns for the
\* given route.Options.
NewHTTPAdapter(options) ==
    LET capIn == getIntParameter(options.capacity, defaultCapacity)
        cap == IF CapacityNonSensical(capIn) THEN defaultCapacity ELSE capIn
        toIn == getDurationParameter(options.timeout, defaultTimeout)
        to == IF TimeoutNonSensical(toIn) THEN defaultTimeout ELSE toIn
    IN [built |-> TRUE, failed |-> MakePanics(cap),
        capacity |-> cap, timeout |-> to]

NoAdapter ==
    [built |-> FALSE, failed |-> FALSE, capacity |-> 0,
     timeout |-> Duration(FALSE, 0, 0)]

\* Texts of http.buffer.capacity, with the number each denotes (valid is
\* FALSE for a text that is no integer).
CapacityTable ==
    { [text |-> << "1" >>, valid |-> TRUE, n |-> 1],
      [text |-> << "1", "0", "0", "0", "0" >>, valid |-> TRUE, n |-> 10000],
      [text |-> << "0" >>, valid |-> TRUE, n |-> 0],
      [text |-> << "1", "0", "0", "0", "1" >>, valid |-> TRUE, n |-> 10001],
      [text |-> << "5", "0" >>, valid |-> TRUE, n |-> 50],
      [text |-> << "-", "5" >>, valid |-> TRUE, n |-> 0 - 5],
      [text |-> << "+", "7" >>, valid |-> TRUE, n |-> 7],
      [text |-> << "a", "b", "c" >>, valid |-> FALSE, n |-> 0],
      [text |-> << >>, valid |-> FALSE, n |-> 0],
      [text |-> << "1", "e", "2" >>, valid |-> FALSE, n |-> 0] }

\* Texts of http.buffer.timeout, with the duration each denotes.
TimeoutTable ==
    { [text |-> << "1", "0", "0", "m", "s" >>, valid |-> TRUE,
       d |-> [neg |-> FALSE, sec |-> 0, nsec |-> 100000000]],
      [text |-> << "9", "9", "m", "s" >>, valid |-> TRUE,
       d |-> [neg |-> FALSE, sec |-> 0, nsec |-> 99000000]],
      [text |-> << "9", "9", "9", "9", "9", "9", "9", "9", "n", "s" >>, valid |-> TRUE,
       d |-> [neg |-> FALSE, sec |-> 0, nsec |-> 99999999]],
      [text |-> << "1", "0", "0", "0", "0", "0", "u", "s" >>, valid |-> TRUE,
       d |-> [neg |-> FALSE, sec |-> 0, nsec |-> 100000000]],
      [text |-> << "6", "0", "0", "s" >>, valid |-> TRUE,
       d |-> [neg |-> FALSE, sec |-> 600, nsec |-> 0]],
      [text |-> << "1", "0", "m" >>, valid |-> TRUE,
       d |-> [neg |-> FALSE, sec |-> 600, nsec |-> 0]],
      [text |-> << "6", "0", "0", "s", "1", "n", "s" >>, valid |-> TRUE,
       d |-> [neg |-> FALSE, sec |-> 600, nsec |-> 1]],
      [text |-> << "6", "0", "1", "s" >>, valid |-> TRUE,
       d |-> [neg |-> FALSE, sec |-> 601, nsec |-> 0]],
      [text |-> << "1", "h" >>, valid |-> TRUE,
       d |-> [neg |-> FALSE, sec |-> 3600, nsec |-> 0]],
      [text |-> << "1", "0", "0", "0", "m", "s" >>, valid |-> TRUE,
       d |-> [neg |-> FALSE, sec |-> 1, nsec |-> 0]],
      [text |-> << "5", "s" >>, valid |-> TRUE,
       d |-> [neg |-> FALSE, sec |-> 5, nsec |-> 0]],
      [text |-> << "1", "m", "3", "0", "s" >>, valid |-> TRUE,
       d |-> [neg |-> FALSE, sec |-> 90, nsec |-> 0]],
      [text |-> << "-", "1", "s" >>, valid |-> TRUE,
       d |-> [neg |-> TRUE, sec |-> 1, nsec |-> 0]],
      [text |-> << "0" >>, valid |-> TRUE,
       d |-> [neg |-> FALSE, sec |-> 0, nsec |-> 0]],
      [text |-> << "5" >>, valid |-> FALSE,
       d |-> [neg |-> FALSE, sec |-> 0, nsec |-> 0]],
      [text |-> << "a", "b", "c" >>, valid |-> FALSE,
       d |-> [neg |-> FALSE, sec |-> 0, nsec |-> 0]],
      [text |-> << "5", "x" >>, valid |-> FALSE,
       d |-> [neg |-> FALSE, sec |-> 0, nsec |-> 0]],
      [text |-> << >>, valid |-> FALSE,
       d |-> [neg |-> FALSE, sec |-> 0, nsec |-> 0]] }

CapacityOptions == {Absent} \cup {Given(e.text) : e \in CapacityTable}
TimeoutOptions == {Absent} \cup {Given(e.text) : e \in TimeoutTable}

NoRoute == [capacity |-> Absent, timeout |-> Absent]

(* --------------------------- ghost records --------------------------- *)

Step(op) ==
    [op |-> op, reason |-> "", cID |-> "", cached |-> FALSE, api |-> FALSE,
     gone |-> FALSE, res |-> "", n |-> 0, marshalOk |-> TRUE, outcome |-> "",
     payload |-> "", queued |-> 0]

(* ------------------------------ panics ------------------------------- *)

\* An unrecovered panic in any goroutine ends the process: its goroutines,
\* buffer, timer and caches are gone. The counters are kept as they stood.
Halt ==
    /\ crashed' = TRUE
    /\ pc' = "dead"
    /\ buffer' = << >>
    /\ tasks' = {}
    /\ timerLeft' = 0
    /\ timerC' = 0
    /\ logstashFields' = << >>
    /\ cCache' = << >>
    /\ UNCHANGED << config, aside, completed, totalMessageCount >>

(* ------------------------------ Init --------------------------------- *)

InitCommon ==
    /\ capacity \in 1..MaxCapacity
    /\ timeout = TimeoutTicks
    /\ crash \in BOOLEAN
    /\ buffer = << >>
    /\ timerLeft = timeout
    /\ timerC = 0
    /\ totalMessageCount = 0
    /\ logstashFields = << >>
    /\ cCache = << >>
    /\ tasks = {}
    /\ pc = "select"
    /\ crashed = FALSE
    /\ nextSeq = 0
    /\ last = Step("init")
    /\ completed = 0

\* init() registers NewHTTPAdapter for both route kinds: an adapter of each
\* kind runs its own Stream goroutine against the one cCache.
Workers == {"http", "https"}

\* A worker waiting in its select.
Waiting == [pc |-> "select", cID |-> "", info |-> NilInfo]

NoWorkers == [w \in Workers |-> Waiting]

\* One adapter, already constructed, and no second one.
InitAside == route = NoRoute /\ adapter = NoAdapter /\ wk = NoWorkers

Init == InitCommon /\ marshalMayFail = FALSE /\ InitAside

InitFault == InitCommon /\ marshalMayFail = TRUE /\ InitAside

(* ----------------------- Stream: the worker -------------------------- *)

\* case message := <-logstream, up to the append under the mutex.
RecvMessage(cID, payload, listed, apiErr) ==
    /\ ~crashed
    /\ pc = "select"
    /\ nextSeq < MaxMsgs
    /\ nextSeq' = nextSeq + 1
    /\ LET rancherInfo == GetRancherInfo(cCache, cID, listed, apiErr)
           step == [Step("recv") EXCEPT
                       !.cID = cID,
                       !.cached = ExistsInCache(cCache, cID),
                       !.api = CallsApi(cCache, cID),
                       !.gone = (listed = "none"),
                       !.payload = payload,
                       !.res = IF rancherInfo = NilInfo THEN "absent"
                                                        ELSE rancherInfo.ver]
       IN IF GetLogstashFieldsPanics(logstashFields, cID)
          THEN /\ Halt
               /\ last' = [Step("panic") EXCEPT !.cID = cID]
          ELSE IF Dropped(rancherInfo)
          THEN /\ logstashFields' = GetLogstashFieldsCache(logstashFields, cID)
               /\ cCache' = GetRancherInfoCache(cCache, cID, listed, apiErr)
               /\ last' = [step EXCEPT !.op = "drop"]
               /\ UNCHANGED << config, aside, completed, buffer, timerLeft, timerC,
                               totalMessageCount, tasks, pc, crashed >>
          ELSE IF RecordPanics(payload)
          THEN /\ Halt
               /\ last' = [step EXCEPT !.op = "panic"]
          ELSE /\ logstashFields' = GetLogstashFieldsCache(logstashFields, cID)
               /\ cCache' = GetRancherInfoCache(cCache, cID, listed, apiErr)
               /\ buffer' = Append(buffer,
                                LogRecord(nextSeq + 1, cID, payload, rancherInfo))
               /\ pc' = "check"
               /\ last' = [step EXCEPT !.op = "append", !.n = Len(buffer)]
               /\ UNCHANGED << config, aside, completed, timerLeft, timerC, totalMessageCount,
                               tasks, crashed >>

\* The capacity check that ends the message case.
CheckFull(marshalOk) ==
    /\ ~crashed
    /\ pc = "check"
    /\ pc' = "select"
    /\ IF IsFull(buffer)
       THEN /\ flushHttp("full", marshalOk, timerC)
            /\ last' = [Step("flush") EXCEPT !.reason = "full", !.n = Len(buffer),
                                             !.queued = timerC,
                                             !.marshalOk = marshalOk]
       ELSE /\ UNCHANGED << buffer, timerLeft, timerC, tasks >>
            /\ last' = [Step("nofull") EXCEPT !.n = Len(buffer)]
    /\ UNCHANGED << config, aside, completed, totalMessageCount, logstashFields, cCache,
                    crashed, nextSeq >>

\* case <-a.timer.C
TimerFlush(marshalOk) ==
    /\ ~crashed
    /\ pc = "select"
    /\ timerC > 0
    /\ flushHttp("timeout", marshalOk, timerC - 1)
    /\ last' = [Step("flush") EXCEPT !.reason = "timeout", !.n = Len(buffer),
                                     !.queued = timerC - 1,
                                     !.marshalOk = marshalOk]
    /\ UNCHANGED << config, aside, completed, totalMessageCount, logstashFields, cCache,
                    pc, crashed, nextSeq >>

(* --------------------------- the timer ------------------------------- *)

\* Time passes for the running timer; on expiry the runtime sends on the
\* one-slot channel a.timer.C.
Tick ==
    /\ ~crashed
    /\ timerLeft > 0
    /\ timerLeft' = timerLeft - 1
    /\ timerC' = IF timerLeft = 1 THEN 1 ELSE timerC
    /\ UNCHANGED << config, aside, completed, buffer, totalMessageCount, logstashFields, cCache,
                    tasks, pc, crashed, nextSeq, last >>

(* ----------------------- the flush goroutines ------------------------ *)

\* Whether the goroutine panics once client.Do has returned: die() when
\* a.crash is set, and otherwise response.StatusCode on the nil response
\* that comes with a transport error ("err" is a failure to reach the
\* server, for which client.Do returns no response).
RespondPanics(outcome) ==
    \/ outcome = "err" /\ crash
    \/ outcome = "err" /\ ~crash
    \/ outcome \notin {"err", "200"} /\ crash

\* client.Do returns; the goroutine passes the two status checks, drains
\* the body and loads a.totalMessageCount for the += that follows. Between
\* the response and that load it touches nothing shared, so the two are
\* one step.
TaskRespond(t, outcome) ==
    /\ ~crashed
    /\ t \in tasks
    /\ t.pc = "do"
    /\ last' = [Step("respond") EXCEPT !.outcome = outcome, !.n = Len(t.batch)]
    /\ IF RespondPanics(outcome)
       THEN /\ Halt
            /\ UNCHANGED nextSeq
       ELSE /\ tasks' = (tasks \ {t}) \cup
                          {[t EXCEPT !.pc = "write", !.tmp = totalMessageCount]}
            /\ UNCHANGED << config, aside, completed, buffer, timerLeft, timerC, totalMessageCount,
                            logstashFields, cCache, pc, crashed, nextSeq >>

\* a.totalMessageCount += len(buffer): the store; the goroutine ends.
TaskWrite(t) ==
    /\ ~crashed
    /\ t \in tasks
    /\ t.pc = "write"
    /\ totalMessageCount' = t.tmp + Len(t.batch)
    /\ tasks' = tasks \ {t}
    /\ completed' = completed + Len(t.batch)
    /\ UNCHANGED << config, aside, buffer, timerLeft, timerC, logstashFields, cCache,
                    pc, crashed, nextSeq, last >>

Next ==
    \/ \E cID \in ContainerIDs, payload \in Payloads,
          listed \in Listings, apiErr \in BOOLEAN :
           RecvMessage(cID, payload, listed, apiErr)
    \/ \E ok \in MarshalOutcomes : CheckFull(ok)
    \/ \E ok \in MarshalOutcomes : TimerFlush(ok)
    \/ Tick
    \/ \E t \in tasks, outcome \in DoOutcomes : TaskRespond(t, outcome)
    \/ \E t \in tasks : TaskWrite(t)

Spec == Init /\ [][Next]_vars

SpecFault == InitFault /\ [][Next]_vars

\* The runtime keeps the timer running and schedules the worker: a timer
\* that is armed goes on counting down, and a worker that can take the
\* timer case or finish its capacity check does so.
SpecLive ==
    /\ Init /\ [][Next]_vars
    /\ WF_vars(Tick)
    /\ WF_vars(\E ok \in MarshalOutcomes : CheckFull(ok))
    /\ WF_vars(\E ok \in MarshalOutcomes : TimerFlush(ok))

(* ------------------ NewHTTPAdapter on its own ------------------------ *)

\* The framework calls the factory with the options of a route.
Construct ==
    /\ ~adapter.built
    /\ adapter' = NewHTTPAdapter(route)
    /\ UNCHANGED << config, completed, buffer, timerLeft, timerC,
                    totalMessageCount, logstashFields, cCache, tasks, pc,
                    crashed, nextSeq, last, route, wk >>

InitConfig ==
    /\ InitCommon
    /\ capacity = 1 /\ crash /\ marshalMayFail = FALSE
    /\ route \in [capacity : CapacityOptions, timeout : TimeoutOptions]
    /\ adapter = NoAdapter
    /\ wk = NoWorkers

SpecConfig == InitConfig /\ [][Construct]_vars

(* ------------- two adapters resolving against cCache ----------------- *)

\* Positions of a worker inside GetRancherInfo at which it is in the middle
\* of a read, or of a write, of the map cCache.
ReadPcs == {"exists", "get", "recheck"}
WritePcs == {"store", "delete"}

\* The containers whose messages get as far as GetRancherInfo.
ResolvedIDs == {id \in ContainerIDs : ~FieldsPanic(FieldsStr(id))}

\* Two goroutines are inside cCache at once and one of them writes.
Overlap ==
    \E v, w \in Workers :
        v # w /\ wk[v].pc \in WritePcs /\ wk[w].pc \in WritePcs \cup ReadPcs

\* A worker takes a message and enters ExistsInCache; `listed` and `apiErr`
\* are what Rancher will answer if it is asked.
WorkerRecv(w, cID, listed, apiErr) ==
    /\ ~crashed
    /\ wk[w].pc = "select"
    /\ wk' = [wk EXCEPT ![w] = [pc |-> "exists", cID |-> cID,
                                info |-> GetRancherId(cID, listed, apiErr)]]
    /\ UNCHANGED << config, completed, buffer, timerLeft, timerC,
                    totalMessageCount, logstashFields, cCache, tasks, pc,
                    crashed, nextSeq, last, route, adapter >>

\* A worker finishes the map access (or the API call) it is in and goes on
\* to the next one of GetRancherInfo, or back to its select.
WorkerStep(w) ==
    /\ ~crashed
    /\ wk[w].pc # "select"
    /\ LET me == wk[w]
           to(p) == [wk EXCEPT ![w].pc = p]
       IN CASE me.pc = "exists" ->
                   /\ wk' = to(IF ExistsInCache(cCache, me.cID) THEN "get" ELSE "api")
                   /\ UNCHANGED cCache
            [] me.pc = "api" ->
                   /\ wk' = to(IF me.info = NilInfo THEN "delete" ELSE "store")
                   /\ UNCHANGED cCache
            [] me.pc = "delete" ->
                   /\ cCache' = DeleteFromCacheMap(cCache, me.cID)
                   /\ wk' = to("recheck")
            [] me.pc = "store" ->
                   /\ cCache' = Cache(cCache, me.info)
                   /\ wk' = [wk EXCEPT ![w] = Waiting]
            [] me.pc \in {"get", "recheck"} ->
                   /\ wk' = [wk EXCEPT ![w] = Waiting]
                   /\ UNCHANGED cCache
    /\ UNCHANGED << config, completed, buffer, timerLeft, timerC,
                    totalMessageCount, logstashFields, tasks, pc,
                    crashed, nextSeq, last, route, adapter >>

\* The Go runtime notices the unsynchronised map access and throws
\* "concurrent map read and map write" / "concurrent map writes".
WorkerFatal ==
    /\ ~crashed
    /\ Overlap
    /\ Halt
    /\ UNCHANGED << nextSeq, last >>

InitCache ==
    /\ InitCommon
    /\ capacity = 1 /\ crash /\ marshalMayFail = FALSE
    /\ InitAside

NextCache ==
    \/ \E w \in Workers, cID \in ResolvedIDs, listed \in Listings,
          apiErr \in BOOLEAN : WorkerRecv(w, cID, listed, apiErr)
    \/ \E w \in Workers : WorkerStep(w)
    \/ WorkerFatal

SpecCache == InitCache /\ [][NextCache]_vars

(* ======================= properties of the code ====================== *)

\* Steps of the worker, told apart by what they do to its own state.
IsMessageStep == nextSeq' = nextSeq + 1
IsCapacityCheck == pc = "check" /\ pc' = "select"
IsTimerCase == pc = "select" /\ pc' = "select" /\ timerC = 1 /\ timerC' = 0

\* The records of a sequence are in arrival order.
InArrivalOrder(recs) ==
    \A i, j \in 1..Len(recs) : i < j => recs[i].seq < recs[j].seq

\* The batches held by a set of goroutines.
Batches(ts) == {t.batch : t \in ts}

\* The goroutine a flush is expected to start for the records in `buf`.
Dispatched(buf, reason) == [batch |-> buf, reason |-> reason, pc |-> "do", tmp |-> 0]

\* C1: capacity flush. An append that brings the buffer to capacity leaves
\* the worker at the capacity check; from there no record and no timer
\* event is handled before the check, and the check detaches exactly
\* `capacity` records into one goroutine with reason "full", leaves the
\* live buffer empty, the timer channel empty and the timer rearmed with
\* the configured timeout.
C1_CapacityFlush ==
    [][ /\ (IsMessageStep /\ Len(buffer') > Len(buffer) /\ Len(buffer') >= capacity)
               => pc' = "check"
        /\ (pc = "check" /\ Len(buffer) >= capacity /\ ~crashed')
               => \/ /\ pc' = "check"
                     /\ buffer' = buffer
                     /\ nextSeq' = nextSeq
                     /\ timerC' >= timerC
                     /\ \A t \in tasks' : t.batch # buffer
                  \/ /\ pc' = "select"
                     /\ Len(buffer) = capacity
                     /\ buffer' = << >>
                     /\ tasks' = tasks \cup {Dispatched(buffer, "full")}
                     /\ Dispatched(buffer, "full") \notin tasks
                     /\ timerC' = 0
                     /\ timerLeft' = timeout
      ]_vars

C1_Witness ==
    /\ last.op = "flush" /\ last.reason = "full"
    /\ capacity = 2 /\ last.n = capacity
    /\ buffer = << >>
    /\ timerLeft = timeout /\ timerC = 0
    /\ \E t \in tasks : t.reason = "full" /\ Len(t.batch) = capacity

C3_DropWithoutMetadata ==
    [][ IsMessageStep =>
          /\ Len(buffer') > Len(buffer)
                => /\ last'.res \in Listings \ {"none"}
                   /\ Len(buffer') = Len(buffer) + 1
                   /\ buffer'[Len(buffer')].rancher = last'.res
                   /\ buffer'[Len(buffer')].docker = last'.cID
          /\ last'.res = "absent"
                => /\ buffer' = buffer
                   /\ timerLeft' = timerLeft /\ timerC' = timerC
                   /\ totalMessageCount' = totalMessageCount
                   /\ tasks' = tasks
                   /\ pc' = "select" /\ ~crashed'
      ]_vars

C3_Witness ==
    /\ last.op = "drop" /\ last.res = "absent"
    /\ Len(buffer) = 1 /\ pc = "select" /\ ~crashed

\* C4 (as claimed): a request that fails, by a transport error or by a status
\* other than 200, ends the process exactly when crash-on-error is enabled.
C4_FailurePolicy ==
    (last.op = "respond" /\ last.outcome # "200") => (crashed <=> crash)

\* What does hold of a failed request: a status other than 200 ends the
\* process exactly when crash-on-error is enabled, and a transport error
\* ends it under either setting.
C4_ObservedPolicy ==
    /\ (last.op = "respond" /\ last.outcome = "500") => (crashed <=> crash)
    /\ (last.op = "respond" /\ last.outcome = "err") => crashed

\* C5: a cached record never changes while the process runs, and a message
\* for a cached container ID gets exactly that record, without a call of the
\* Rancher API, whatever Rancher lists for the ID by then.
C5_CacheConsistency ==
    [][ /\ ~crashed' =>
              \A k \in DOMAIN cCache :
                  k \in DOMAIN cCache' /\ cCache'[k] = cCache[k] /\ cCache[k].DockerID = k
        /\ (IsMessageStep /\ last'.res # "" /\ last'.cID \in DOMAIN cCache)
              => /\ last'.res = cCache[last'.cID].ver
                 /\ ~last'.api
                 /\ cCache' = cCache \/ crashed'
      ]_vars

C5_Witness ==
    /\ last.op = "append" /\ last.cached /\ ~last.api
    /\ last.cID \in DOMAIN cCache /\ last.res = cCache[last.cID].ver
    /\ nextSeq = 2 /\ Len(buffer) = 2
    /\ buffer[1].docker = buffer[2].docker /\ buffer[1].rancher = buffer[2].rancher

\* C6 (as claimed): a message for a cached container ID that Rancher no
\* longer lists is dropped, and the ID is gone from the cache.
C6_Eviction ==
    (last.cached /\ last.gone /\ last.res # "" /\ ~crashed)
        => (last.res = "absent" /\ last.cID \notin DOMAIN cCache)

\* C7: a flush on the empty buffer (the timer's event taken with nothing
\* buffered) starts no goroutine, leaves buffer and counter as they were,
\* and rearms the timer with the configured timeout.
C7_EmptyFlush ==
    [][ (IsTimerCase /\ Len(buffer) = 0)
            => /\ tasks' = tasks
               /\ buffer' = buffer
               /\ totalMessageCount' = totalMessageCount
               /\ timerLeft' = timeout
               /\ timerC' = 0
      ]_vars

C7_Witness ==
    /\ last.op = "flush" /\ last.reason = "timeout" /\ last.n = 0
    /\ buffer = << >> /\ tasks = {} /\ timerLeft = timeout /\ timerC = 0
    /\ nextSeq = 0

\* C8: a flush whose json.Marshal fails starts no goroutine, loses the
\* detached records (the live buffer is the fresh empty one), leaves the
\* process running and the counter as it was, and rearms the timer; a flush
\* whose json.Marshal succeeds, before or after such a failure, starts its
\* goroutine with the detached records.
C8_MarshalFailure ==
    [][ ((IsCapacityCheck \/ IsTimerCase) /\ Len(buffer) > 0 /\ buffer' # buffer)
            => /\ buffer' = << >>
               /\ ~crashed'
               /\ timerLeft' = timeout /\ timerC' = 0
               /\ totalMessageCount' = totalMessageCount
               /\ last'.op = "flush"
               /\ ~last'.marshalOk => tasks' = tasks
               /\ last'.marshalOk =>
                      tasks' = tasks \cup {Dispatched(buffer, last'.reason)}
      ]_vars

C8_Witness ==
    /\ last.op = "flush" /\ ~last.marshalOk /\ last.n > 0
    /\ buffer = << >> /\ tasks = {} /\ ~crashed
    /\ timerLeft = timeout /\ totalMessageCount = 0

\* C9: when GetRancherInfo returns nil the cache holds no entry for the ID
\* and the process runs on; a message for an ID without entry calls the
\* Rancher API, and what the call finds is cached under that ID.
C9_FailureNotCached ==
    [][ IsMessageStep =>
          /\ last'.res = "absent"
                => last'.cID \notin DOMAIN cCache' /\ ~crashed'
          /\ (last'.res # "" /\ last'.cID \notin DOMAIN cCache)
                => /\ last'.api
                   /\ (last'.res # "absent" /\ ~crashed')
                         => /\ last'.cID \in DOMAIN cCache'
                            /\ cCache'[last'.cID] =
                                   [DockerID |-> last'.cID, ver |-> last'.res]
      ]_vars

\* The first message for a container was dropped, the second one for the
\* same container queried the API again, was enriched and is cached.
C9_Witness ==
    /\ last.op = "append" /\ last.api /\ ~last.cached
    /\ nextSeq = 2 /\ DOMAIN logstashFields = {last.cID}
    /\ Len(buffer) = 1 /\ buffer[1].seq = 2
    /\ tasks = {} /\ totalMessageCount = 0 /\ timerLeft > 0 /\ capacity = 2
    /\ last.cID \in DOMAIN cCache /\ cCache[last.cID].ver = last.res

\* C10: the live buffer never holds more than `capacity` records, and
\* whenever the worker is at its select it holds at most capacity - 1.
C10_BufferBound ==
    /\ Len(buffer) <= capacity
    /\ pc = "select" => Len(buffer) <= capacity - 1

C10_Witness ==
    pc = "check" /\ Len(buffer) = capacity /\ capacity = 2

\* Whether message.Data is valid JSON.
ValidJSON(payload) == payload \in {"object", "array", "null"}

\* C11 (as claimed): a message whose container resolves appends exactly one
\* record and leaves the worker running; the record is merged when the
\* payload is valid JSON and wraps the payload under `message` when it is
\* not.
C11_PayloadHandling ==
    (last.res \in Listings \ {"none"})
        => /\ ~crashed
           /\ last.op = "append"
           /\ Len(buffer) = last.n + 1
           /\ buffer[Len(buffer)].seq = nextSeq
           /\ buffer[Len(buffer)].wrapped = ~ValidJSON(last.payload)

\* What does hold of a resolved message: a JSON object is merged, any other
\* JSON value but null and any text is wrapped under `message`, and null
\* ends the process without a record.
C11_ObservedHandling ==
    (last.res \in Listings \ {"none"})
        => IF last.payload = "null"
           THEN crashed /\ last.op = "panic"
           ELSE /\ ~crashed /\ last.op = "append"
                /\ Len(buffer) = last.n + 1
                /\ buffer[Len(buffer)].seq = nextSeq
                /\ buffer[Len(buffer)].wrapped = (last.payload # "object")

RECURSIVE WellFormedFrom(_, _, _)
WellFormedFrom(entries, i, acc) ==
    IF i > Len(entries)
    THEN acc
    ELSE LET sp == Split(entries[i], "=")
         IN WellFormedFrom(entries, i + 1,
                IF Len(sp) = 2
                THEN [k \in DOMAIN acc \cup {sp[1]} |->
                          IF k = sp[1] THEN sp[2] ELSE acc[k]]
                ELSE acc)

\* The fields of the entries of a LOGSTASH_FIELDS string that hold exactly
\* one "=".
WellFormedFields(fieldsStr) ==
    IF Len(fieldsStr) > 0
    THEN WellFormedFrom(Split(fieldsStr, ","), 1, << >>)
    ELSE << >>

\* C12 (as claimed): GetLogstashFields returns for every container, without
\* ending the worker, the fields of the well-formed entries of its
\* LOGSTASH_FIELDS string.
C12_MalformedFieldsSkipped ==
    /\ ~(last.op = "panic" /\ last.res = "")
    /\ \A id \in DOMAIN logstashFields :
           logstashFields[id] = WellFormedFields(FieldsStr(id))

\* C13: configuration clamping. The adapter NewHTTPAdapter returns has a
\* capacity in 1..10000 and a timeout in 100ms..600s; each is the configured
\* value when its text parses and denotes a value in the range, ends
\* included, and the default (100 records, 1000ms) when the option is
\* missing, unparsable or out of range; construction does not fail.
C13_ConfigClamping ==
    adapter.built =>
        /\ ~adapter.failed
        /\ adapter.capacity \in 1..10000
        /\ adapter.capacity =
               IF \E e \in CapacityTable :
                      /\ route.capacity = Given(e.text)
                      /\ e.valid /\ e.n \in 1..10000
               THEN (CHOOSE e \in CapacityTable : route.capacity = Given(e.text)).n
               ELSE 100
        /\ LET d == adapter.timeout
               InRange(x) == /\ ~x.neg
                             /\ x.sec >= 1 \/ x.nsec >= 100000000
                             /\ x.sec < 600 \/ (x.sec = 600 /\ x.nsec = 0)
           IN /\ InRange(d)
              /\ d = IF \E e \in TimeoutTable :
                            /\ route.timeout = Given(e.text)
                            /\ e.valid /\ InRange(e.d)
                     THEN (CHOOSE e \in TimeoutTable :
                               route.timeout = Given(e.text)).d
                     ELSE Duration(FALSE, 1, 0)

\* An adapter built from the two lower ends of the ranges, kept as given.
C13_Witness ==
    /\ adapter.built
    /\ route.capacity = Given(<< "1" >>)
    /\ route.timeout = Given(<< "1", "0", "0", "m", "s" >>)
    /\ adapter.capacity = 1
    /\ adapter.timeout = Duration(FALSE, 0, 100000000)

\* C14 (as claimed): accesses to the metadata cache are synchronised. With
\* the http and the https adapter both streaming, no worker is inside a
\* write of cCache while the other is inside a read or a write of it, and
\* the runtime never aborts on the map.
C14_CacheSynchronized == ~Overlap /\ ~crashed

\* C15 (as claimed): the cumulative count changes only in the last step of
\* a flush goroutine whose request has been answered, that step adds
\* exactly the size of the goroutine's batch, and the count never goes down.
C15_CounterDiscipline ==
    [][ /\ totalMessageCount' >= totalMessageCount
        /\ totalMessageCount' # totalMessageCount
               => \E t \in tasks : t.pc = "write" /\ t \notin tasks'
        /\ \A t \in tasks :
               (t.pc = "write" /\ t \notin tasks' /\ ~crashed')
                   => totalMessageCount' = totalMessageCount + Len(t.batch)
      ]_vars

\* The sequence numbers of the records of a sequence.
Seqs(recs) == {recs[i].seq : i \in 1..Len(recs)}

\* No record is held twice, and the records held are in arrival order
\* within the buffer, within each batch and from the batches to the buffer.
HeldOnce ==
    /\ InArrivalOrder(buffer)
    /\ \A t \in tasks :
           /\ Len(t.batch) > 0
           /\ InArrivalOrder(t.batch)
           /\ \A i \in Seqs(t.batch), j \in Seqs(buffer) : i < j
           /\ \A u \in tasks : u.batch # t.batch => Seqs(u.batch) \cap Seqs(t.batch) = {}
           /\ \A u \in tasks : u.batch = t.batch => u = t

\* C16: batches partition the accepted records. No record is in two places;
\* a flush moves the whole buffer, in arrival order, into one new goroutine;
\* the batch of a goroutine never changes, and a goroutine whose request has
\* been made never makes another.
C16_BatchesPartition ==
    /\ []HeldOnce
    /\ [][ /\ (buffer' # buffer /\ nextSeq' = nextSeq /\ ~crashed')
                  => /\ buffer' = << >>
                     /\ \E r \in {"full", "timeout"} :
                            /\ Dispatched(buffer, r) \notin tasks
                            /\ tasks' = tasks \cup {Dispatched(buffer, r)}
           /\ \A u \in tasks' :
                  \/ \E t \in tasks : t.batch = u.batch /\ t.reason = u.reason
                  \/ u.batch = buffer /\ buffer' = << >>
           /\ \A t \in tasks, u \in tasks' :
                  (t.batch = u.batch /\ t.pc = "write") => u = t
         ]_vars

\* A batch whose request has been answered while a later record waits in
\* the buffer.
C16_Witness ==
    \E t \in tasks : t.pc = "write" /\ Len(t.batch) = 1 /\ Len(buffer) = 1

\* C17: the worker is never blocked by the network. A goroutine appears
\* with its request still to be made and the worker back at its select;
\* while requests are outstanding the worker's next step (the capacity
\* check, the next message, the timer case) is enabled.
C17_WorkerNotBlocked ==
    /\ [][ \A u \in tasks' :
               (\A t \in tasks : t.batch # u.batch) => u.pc = "do" /\ pc' = "select"
         ]_vars
    /\ []((~crashed /\ \E t \in tasks : t.pc = "do")
             => /\ pc = "check" => ENABLED CheckFull(TRUE)
                /\ (pc = "select" /\ nextSeq < MaxMsgs)
                       => ENABLED RecvMessage("c1", "object", "v1", FALSE)
                /\ (pc = "select" /\ timerC > 0) => ENABLED TimerFlush(TRUE))

\* Two requests outstanding at once, and the worker back at its select.
C17_Witness ==
    /\ pc = "select"
    /\ \E t, u \in tasks : t # u /\ t.pc = "do" /\ u.pc = "do"

\* C18: no stale timeout after a flush. Every flush returns with a.timer.C
\* empty and the timer armed for the whole timeout; an event appears on
\* a.timer.C only when the armed timer runs out; and a timeout flush is
\* started only by such an event.
C18_NoStaleTimeout ==
    [][ /\ (\/ pc = "check" /\ pc' = "select" /\ Len(buffer) >= capacity
            \/ pc = "select" /\ timerC = 1 /\ timerLeft' # timerLeft /\ ~crashed')
               => timerC' = 0 /\ timerLeft' = timeout
        /\ timerC' > timerC => timerLeft = 1 /\ timerLeft' = 0
        /\ \A u \in tasks' :
               (u.reason = "timeout" /\ \A t \in tasks : t.batch # u.batch)
                   => timerC = 1 /\ timerLeft = 0
      ]_vars

\* A capacity flush that found an event queued on a.timer.C and removed it.
C18_Witness ==
    /\ last.op = "flush" /\ last.reason = "full" /\ last.queued = 1
    /\ pc = "select" /\ timerC = 0 /\ timerLeft = timeout

\* C20 (as claimed): no counter update is lost. Once every flush goroutine
\* has finished, the count is the number of records in the batches whose
\* goroutine got as far as the update.
C20_NoLostUpdates ==
    (tasks = {} /\ ~crashed) => totalMessageCount = completed

\* C19 (as claimed): every buffered record is dispatched. A record leaves
\* the buffer only into the batch of a flush goroutine.
C19_EveryRecordDispatched ==
    [][ \A s \in Seqs(buffer) :
            s \in Seqs(buffer') \/ \E t \in tasks' : s \in Seqs(t.batch)
      ]_vars

\* C19 (amended): while the worker waits in its select the timer is armed
\* or has an event pending; a record leaves the buffer only into the batch
\* of a flush goroutine or when the process ends; and under fairness of the
\* timer and the worker a buffer that holds records is eventually detached,
\* or the process has ended before that.
C19_DispatchedOrTerminated ==
    /\ []((pc = "select" /\ ~crashed) => (timerLeft > 0 \/ timerC > 0))
    /\ [][ \A s \in Seqs(buffer) :
               \/ s \in Seqs(buffer')
               \/ \E t \in tasks' : s \in Seqs(t.batch)
               \/ crashed'
         ]_vars
    /\ (Len(buffer) > 0) ~> (crashed \/ Len(buffer) = 0)

\* A lone record in a half-full buffer, dispatched by the timer with no
\* further message.
C19_Witness ==
    /\ last.op = "flush" /\ last.reason = "timeout"
    /\ capacity = 2 /\ nextSeq = 1
    /\ \E t \in tasks : Seqs(t.batch) = {1}

====
